---- MODULE Spec2Model ----
(***************************************************************************)
(* Topological indices of molecular graphs (drug-indices-project).         *)
(*                                                                         *)
(* Two specifications over one set of variables:                           *)
(*   SpecIndices  one edge list is turned into a networkx Graph            *)
(*                (G.add_edges_from) and calculate_indices walks           *)
(*                G.edges() one iteration at a time;                       *)
(*   Spec         the batch pipeline of main.py:                           *)
(*                calculate_and_return_all_drugs over a name list and a    *)
(*                source mapping, then save_results_to_dataframe.          *)
(*                                                                         *)
(* Numbers.  Python accumulates IEEE doubles.  The model keeps every       *)
(* value that is a rational function of the degrees as an exact reduced    *)
(* fraction <<n, d>>, d > 0, and SC (a sum of square roots) as the bag of  *)
(* the sum_deg values whose sqrt(1.0 / sum_deg) was added.  A division by  *)
(* zero (ZeroDivisionError in Python) yields the value DivZero, which      *)
(* every later operation propagates and which the callers turn into the   *)
(* raised exception.                                                       *)
(***************************************************************************)
EXTENDS Integers, Sequences, FiniteSets, Bags, TLC

VARIABLES
    pc,         \* position of the running script
    edges,      \* SpecIndices: the edge list handed to G.add_edges_from
    G,          \* SpecIndices: the networkx Graph
    todo,       \* SpecIndices: what the iterator G.edges() has still to yield
    indices,    \* SpecIndices: the accumulator dict of calculate_indices
    cur,        \* SpecIndices: x, y, dx, dy of the last loop iteration
    drug_list,  \* Spec: the list of names
    data,       \* Spec: the source mapping, as data.get restricted to drug_list
    queue,      \* Spec: what "for name in sorted(drug_list)" has still to visit
    results,    \* Spec: the list of records
    df          \* Spec: the DataFrame of save_results_to_dataframe

vars == <<pc, edges, G, todo, indices, cur, drug_list, data, queue, results, df>>

indexVars == <<edges, G, todo, indices, cur>>
batchVars == <<drug_list, data, queue, results, df>>

(***************************************************************************)
(* Bounds of the model.                                                    *)
(***************************************************************************)
MaxNode == 2        \* atom indices are 0 .. MaxNode
MaxLen == 3         \* edge lists have at most MaxLen pairs
MaxNames == 2       \* name lists have at most MaxNames names

Nodes == 0 .. MaxNode

Range(s) == {s[i] : i \in DOMAIN s}

(***************************************************************************)
(* Exact fractions.                                                        *)
(***************************************************************************)
Abs(n) == IF n < 0 THEN -n ELSE n

RECURSIVE GCD(_, _)
GCD(a, b) == IF b = 0 THEN a ELSE GCD(b, a % b)

DivZero == <<0, 0>>

IsDivZero(q) == q[2] = 0

\* n / d in lowest terms with a positive denominator; DivZero when d = 0
Rat(n, d) ==
    IF d = 0 THEN DivZero
    ELSE LET g == GCD(Abs(n), Abs(d))
             s == IF d < 0 THEN -1 ELSE 1
         IN  <<(s * n) \div g, (s * d) \div g>>

Zero == <<0, 1>>

RatAdd(p, q) ==
    IF IsDivZero(p) \/ IsDivZero(q) THEN DivZero
    ELSE Rat(p[1] * q[2] + q[1] * p[2], p[2] * q[2])

RatCube(q) ==
    IF IsDivZero(q) THEN DivZero
    ELSE <<q[1] * q[1] * q[1], q[2] * q[2] * q[2]>>

(***************************************************************************)
(* networkx.Graph: the nodes in insertion order and, per node, its         *)
(* neighbours in insertion order (the keys of the adjacency dict).         *)
(***************************************************************************)
EmptyGraph == [nodes |-> <<>>, adj |-> <<>>]

NodeSet(g) == Range(g.nodes)

Adj(g, n) == g.adj[n]

HasNode(g, n) == n \in DOMAIN g.adj

\* _node / _adj get an entry for a node that is not yet in the graph
AddNode(g, n) ==
    IF HasNode(g, n) THEN g
    ELSE [nodes |-> Append(g.nodes, n), adj |-> g.adj @@ (n :> <<>>)]

\* mutant of AddNeighbour: a multigraph, every listed pair is one more entry
AddNeighbour_Multi(g, u, v) == [g EXCEPT !.adj[u] = Append(@, v)]

\* adj[u][v] = datadict: a key already present keeps its place
AddNeighbour(g, u, v) ==
    IF v \in Range(g.adj[u]) THEN g
    ELSE [g EXCEPT !.adj[u] = Append(@, v)]

\* mutant of AddEdge: a directed graph, only adj[u] learns of the edge
AddEdge_OneWay(g, e) ==
    AddNeighbour(AddNode(AddNode(g, e[1]), e[2]), e[1], e[2])

\* one pass of the loop of Graph.add_edges_from
AddEdge(g, e) ==
    LET u  == e[1]
        v  == e[2]
        g1 == AddNode(g, u)
        g2 == AddNode(g1, v)
        g3 == AddNeighbour(g2, u, v)
    IN  AddNeighbour(g3, v, u)

RECURSIVE AddEdgesFrom(_, _)
AddEdgesFrom(g, es) ==
    IF es = <<>> THEN g ELSE AddEdgesFrom(AddEdge(g, Head(es)), Tail(es))

\* G = nx.Graph(); G.add_edges_from(edges)
BuildGraph(es) == AddEdgesFrom(EmptyGraph, es)

\* mutant of Degree: the number of neighbours, a self-loop counts once
Degree_Neighbours(g, n) == Len(g.adj[n])

\* G.degree[n]: len(nbrs) + (n in nbrs), a self-loop counts twice
Degree(g, n) ==
    Len(g.adj[n]) + (IF n \in Range(g.adj[n]) THEN 1 ELSE 0)

\* mutant of NbrEdges: no seen set, an edge is yielded from both its ends
RECURSIVE NbrEdges_Both(_, _, _)
NbrEdges_Both(n, nbrs, seen) ==
    IF nbrs = <<>> THEN <<>>
    ELSE << <<n, Head(nbrs)>> >> \o NbrEdges_Both(n, Tail(nbrs), seen)

\* G.edges(): for each node in order, its neighbours not yet seen; the node
\* is marked seen after its neighbours were yielded
RECURSIVE NbrEdges(_, _, _)
NbrEdges(n, nbrs, seen) ==
    IF nbrs = <<>> THEN <<>>
    ELSE (IF Head(nbrs) \in seen THEN <<>> ELSE << <<n, Head(nbrs)>> >>)
         \o NbrEdges(n, Tail(nbrs), seen)

RECURSIVE EdgesFrom(_, _, _)
EdgesFrom(g, ns, seen) ==
    IF ns = <<>> THEN <<>>
    ELSE NbrEdges(Head(ns), g.adj[Head(ns)], seen)
         \o EdgesFrom(g, Tail(ns), seen \cup {Head(ns)})

Edges(g) == EdgesFrom(g, g.nodes, {})

\* a Graph holding the nodes of S and no edge (an argument calculate_indices
\* accepts, although add_edges_from never builds one with S non-empty)
RECURSIVE IsolatedGraph(_)
IsolatedGraph(S) ==
    IF S = {} THEN EmptyGraph
    ELSE LET m == CHOOSE n \in S : \A k \in S : k <= n
         IN  AddNode(IsolatedGraph(S \ {m}), m)

(***************************************************************************)
(* calculate_indices                                                       *)
(***************************************************************************)
IndexKeys == {"M1", "M2", "mM2", "FG", "ISI", "H", "SC", "HM", "A", "SDD"}

RatKeys == IndexKeys \ {"SC"}

\* mutant of ZeroIndices: the product index starts from 1.0
ZeroIndices_M2One ==
    [M1 |-> Zero, M2 |-> <<1, 1>>, mM2 |-> Zero, FG |-> Zero, ISI |-> Zero,
     H |-> Zero, SC |-> EmptyBag, HM |-> Zero, A |-> Zero, SDD |-> Zero]

\* the dict literal the function starts from
ZeroIndices ==
    [M1 |-> Zero, M2 |-> Zero, mM2 |-> Zero, FG |-> Zero, ISI |-> Zero,
     H |-> Zero, SC |-> EmptyBag, HM |-> Zero, A |-> Zero, SDD |-> Zero]

\* the conditional expressions that replace a term by 0.0
FallbackTaken(dx, dy) ==
    \/ dx * dy = 0          \* mM2
    \/ dx + dy = 0          \* ISI, H, SC
    \/ dy = 0               \* SDD, first term
    \/ dx = 0               \* SDD, second term

\* mutant of ATerm: the term is added for every edge, sum_deg = 2 included
ATerm_Unguarded(a, dx, dy) ==
    RatAdd(a, RatCube(Rat(dx * dy, dx + dy - 2)))

\* if sum_deg != 2: indices["A"] += ((dx * dy) / (sum_deg - 2))**3
ATerm(a, dx, dy) ==
    IF dx + dy # 2
    THEN RatAdd(a, RatCube(Rat(dx * dy, dx + dy - 2)))
    ELSE a

\* the body of "for x, y in G.edges()"
EdgeStep(g, ind, e) ==
    LET x       == e[1]
        y       == e[2]
        dx      == Degree(g, x)
        dy      == Degree(g, y)
        sum_deg == dx + dy
    IN  [M1  |-> RatAdd(ind.M1, Rat(sum_deg, 1)),
         M2  |-> RatAdd(ind.M2, Rat(dx * dy, 1)),
         mM2 |-> RatAdd(ind.mM2, IF dx * dy # 0 THEN Rat(1, dx * dy) ELSE Zero),
         FG  |-> RatAdd(ind.FG, Rat(dx * dx + dy * dy, 1)),
         ISI |-> RatAdd(ind.ISI, IF sum_deg # 0 THEN Rat(dx * dy, sum_deg) ELSE Zero),
         H   |-> RatAdd(ind.H, IF sum_deg # 0 THEN Rat(2, sum_deg) ELSE Zero),
         SC  |-> IF sum_deg # 0 THEN ind.SC (+) SetToBag({sum_deg}) ELSE ind.SC,
         HM  |-> RatAdd(ind.HM, Rat(sum_deg * sum_deg, 1)),
         A   |-> ATerm(ind.A, dx, dy),
         SDD |-> RatAdd(ind.SDD,
                        RatAdd(IF dy # 0 THEN Rat(dx, dy) ELSE Zero,
                               IF dx # 0 THEN Rat(dy, dx) ELSE Zero))]

\* some division of the iteration raised ZeroDivisionError
Raised(ind) == \E k \in RatKeys : IsDivZero(ind[k])

RECURSIVE CalcLoop(_, _, _)
CalcLoop(g, ind, es) ==
    IF es = <<>> \/ Raised(ind) THEN ind
    ELSE CalcLoop(g, EdgeStep(g, ind, Head(es)), Tail(es))

\* the whole function, for the callers that use its result
calculate_indices(g) == CalcLoop(g, ZeroIndices, Edges(g))

(***************************************************************************)
(* SpecIndices: one edge list through add_edges_from and calculate_indices *)
(***************************************************************************)
Pairs == Nodes \X Nodes

EdgeLists == UNION {[1 .. n -> Pairs] : n \in 0 .. MaxLen}

NoBatch ==
    /\ drug_list = <<>>
    /\ data = <<>>
    /\ queue = <<>>
    /\ results = <<>>
    /\ df = [index |-> <<>>, rows |-> <<>>]

\* the inputs: every edge list within the bounds, built on a fresh Graph;
\* and, with the empty edge list, every set of isolated nodes
IndexInit ==
    /\ pc = "build"
    /\ edges \in EdgeLists
    /\ \E iso \in SUBSET Nodes :
          /\ edges # <<>> => iso = {}
          /\ G = IsolatedGraph(iso)
    /\ todo = <<>>
    /\ indices = ZeroIndices
    /\ cur = <<>>
    /\ NoBatch

\* G.add_edges_from(edges)
AddEdgesFromCall ==
    /\ pc = "build"
    /\ G' = AddEdgesFrom(G, edges)
    /\ pc' = "calc"
    /\ UNCHANGED <<edges, todo, indices, cur, batchVars>>

\* entry of calculate_indices: the accumulator and the edge iterator
CalcEnter ==
    /\ pc = "calc"
    /\ indices' = ZeroIndices
    /\ todo' = Edges(G)
    /\ pc' = "loop"
    /\ UNCHANGED <<edges, G, cur, batchVars>>

\* one iteration of the loop over G.edges()
CalcIter ==
    /\ pc = "loop"
    /\ todo # <<>>
    /\ LET e    == Head(todo)
           next == EdgeStep(G, indices, e)
       IN  /\ cur' = <<e[1], e[2], Degree(G, e[1]), Degree(G, e[2])>>
           /\ indices' = next
           /\ todo' = Tail(todo)
           /\ pc' = IF Raised(next) THEN "ZeroDivisionError" ELSE "loop"
    /\ UNCHANGED <<edges, G, batchVars>>

\* return indices
CalcReturn ==
    /\ pc = "loop"
    /\ todo = <<>>
    /\ pc' = "done"
    /\ UNCHANGED <<indexVars, batchVars>>

IndexNext == AddEdgesFromCall \/ CalcEnter \/ CalcIter \/ CalcReturn

SpecIndices == IndexInit /\ [][IndexNext]_vars

(***************************************************************************)
(* Names are strings, kept as their sequences of code points so that       *)
(* sorted() can compare them: "Z" = <<90>>, "a" = <<97>>,                  *)
(* "ab" = <<97, 98>>.                                                      *)
(***************************************************************************)
NameUniverse == {<<90>>, <<97>>, <<97, 98>>}

\* str.__lt__: lexicographic on code points, a proper prefix is smaller
RECURSIVE StrLt(_, _)
StrLt(a, b) ==
    IF b = <<>> THEN FALSE
    ELSE IF a = <<>> THEN TRUE
    ELSE IF a[1] # b[1] THEN a[1] < b[1]
    ELSE StrLt(Tail(a), Tail(b))

\* sorted(): a stable insertion of each element after the ones not greater
RECURSIVE InsertSorted(_, _)
InsertSorted(s, x) ==
    IF s = <<>> THEN <<x>>
    ELSE IF StrLt(x, Head(s)) THEN <<x>> \o s
    ELSE <<Head(s)>> \o InsertSorted(Tail(s), x)

RECURSIVE SortedFrom(_, _)
SortedFrom(acc, s) ==
    IF s = <<>> THEN acc ELSE SortedFrom(InsertSorted(acc, Head(s)), Tail(s))

\* mutant of sorted: the list is visited in the order given
sorted_InputOrder(s) == s

sorted(s) == SortedFrom(<<>>, s)

(***************************************************************************)
(* Values of the source mapping (the JSON document): a list of pairs or    *)
(* the error dict written by save_edge_relations_to_json; None is what     *)
(* data.get gives for a missing key.                                       *)
(***************************************************************************)
ListValue(es) == [kind |-> "list", edges |-> es, error |-> ""]

ErrorMarker == [kind |-> "dict", edges |-> <<>>, error |-> "edge relations not found"]

NoneValue == [kind |-> "None", edges |-> <<>>, error |-> ""]

\* data.get(name)
Get(d, name) == IF name \in DOMAIN d THEN d[name] ELSE NoneValue

\* isinstance(edges, list)
IsList(v) == v.kind = "list"

\* the edge lists the batch runs are given: empty, one bond, a triangle, a
\* self-loop, a bond listed twice, a path, a bond and a self-loop
SampleEdgeLists ==
    { <<>>,
      << <<0, 1>> >>,
      << <<0, 1>>, <<1, 2>>, <<2, 0>> >>,
      << <<0, 0>> >>,
      << <<0, 1>>, <<1, 0>> >>,
      << <<0, 1>>, <<1, 2>> >>,
      << <<0, 1>>, <<1, 1>> >> }

PresentValues == {ListValue(es) : es \in SampleEdgeLists} \cup {ErrorMarker}

\* round(v, 3) of an exact fraction: to the nearest thousandth, ties to even
\* (Python rounds the double nearest to the fraction, which differs only when
\* the fraction is a tie that no double represents)
Round3(q) ==
    LET n == 1000 * q[1]
        f == n \div q[2]
        r == n - f * q[2]
        k == IF 2 * r < q[2] THEN f
             ELSE IF 2 * r > q[2] THEN f + 1
             ELSE IF f % 2 = 0 THEN f ELSE f + 1
    IN  Rat(k, 1000)

\* {k: round(v, 3) for k, v in raw.items()}; SC stays the symbolic sum
Rounded(raw) ==
    [k \in DOMAIN raw |-> IF k = "SC" THEN raw[k] ELSE Round3(raw[k])]

SuccessRecord(name, rounded) == [drug |-> name, indices |-> rounded]

\* mutant of FailureRecord: every failure is reported with the error dict
FailureRecord_Reinterpreted(name, v) == [drug |-> name, error |-> ErrorMarker]

FailureRecord(name, v) == [drug |-> name, error |-> v]

\* the body of "for name in sorted(drug_list)", when nothing raises
LoopBody(res, name, d) ==
    LET v == Get(d, name)
    IN  IF IsList(v)
        THEN Append(res, SuccessRecord(name,
                 Rounded(calculate_indices(BuildGraph(v.edges)))))
        ELSE Append(res, FailureRecord(name, v))

RECURSIVE AggregateLoop(_, _, _)
AggregateLoop(res, names, d) ==
    IF names = <<>> THEN res
    ELSE AggregateLoop(LoopBody(res, Head(names), d), Tail(names), d)

\* the value calculate_and_return_all_drugs returns
calculate_and_return_all_drugs(dl, d) == AggregateLoop(<<>>, sorted(dl), d)

HasIndices(r) == "indices" \in DOMAIN r

\* valid = [r for r in results if "indices" in r]
Valid(res) == SelectSeq(res, HasIndices)

\* mutant of DataFrame: the row labels are taken from all the records
DataFrame_AllLabels(res) ==
    LET valid == Valid(res)
    IN  [index |-> [i \in 1 .. Len(res) |-> res[i].drug],
         rows  |-> [i \in 1 .. Len(valid) |-> valid[i].indices]]

\* pd.DataFrame([r["indices"] for r in valid], index=[r["drug"] for r in valid])
DataFrame(res) ==
    LET valid == Valid(res)
    IN  [index |-> [i \in 1 .. Len(valid) |-> valid[i].drug],
         rows  |-> [i \in 1 .. Len(valid) |-> valid[i].indices]]

(***************************************************************************)
(* Spec: the batch pipeline                                                *)
(***************************************************************************)
NameLists ==
    {s \in UNION {[1 .. n -> NameUniverse] : n \in 0 .. MaxNames} :
        \A i, j \in DOMAIN s : i # j => s[i] # s[j]}

NoIndex ==
    /\ edges = <<>>
    /\ G = EmptyGraph
    /\ todo = <<>>
    /\ indices = ZeroIndices
    /\ cur = <<>>

\* a list of distinct names; each name is a key of the document with a list
\* or the error dict, or is missing from it
Init ==
    /\ pc = "call"
    /\ drug_list \in NameLists
    /\ data \in UNION {[K -> PresentValues] : K \in SUBSET Range(drug_list)}
    /\ queue = <<>>
    /\ results = <<>>
    /\ df = [index |-> <<>>, rows |-> <<>>]
    /\ NoIndex

\* results = []; the iterator over sorted(drug_list)
AggregateEnter ==
    /\ pc = "call"
    /\ results' = <<>>
    /\ queue' = sorted(drug_list)
    /\ pc' = "loop"
    /\ UNCHANGED <<drug_list, data, df, indexVars>>

\* an iteration whose data.get(name) is a list
LoopSuccess ==
    /\ pc = "loop"
    /\ queue # <<>>
    /\ IsList(Get(data, Head(queue)))
    /\ LET raw == calculate_indices(BuildGraph(Get(data, Head(queue)).edges))
       IN  IF Raised(raw)
           THEN /\ pc' = "ZeroDivisionError"
                /\ UNCHANGED <<results, queue>>
           ELSE /\ results' = LoopBody(results, Head(queue), data)
                /\ queue' = Tail(queue)
                /\ pc' = "loop"
    /\ UNCHANGED <<drug_list, data, df, indexVars>>

\* mutant of LoopFailure: a failing name is skipped, no record is written
LoopFailure_Skip ==
    /\ pc = "loop"
    /\ queue # <<>>
    /\ ~IsList(Get(data, Head(queue)))
    /\ queue' = Tail(queue)
    /\ UNCHANGED <<pc, results, drug_list, data, df, indexVars>>

\* an iteration whose data.get(name) is not a list
LoopFailure ==
    /\ pc = "loop"
    /\ queue # <<>>
    /\ ~IsList(Get(data, Head(queue)))
    /\ results' = LoopBody(results, Head(queue), data)
    /\ queue' = Tail(queue)
    /\ UNCHANGED <<pc, drug_list, data, df, indexVars>>

\* return results
AggregateReturn ==
    /\ pc = "loop"
    /\ queue = <<>>
    /\ pc' = "returned"
    /\ UNCHANGED <<batchVars, indexVars>>

\* save_results_to_dataframe(results, xlsx_path)
SaveResults ==
    /\ pc = "returned"
    /\ df' = DataFrame(results)
    /\ pc' = "saved"
    /\ UNCHANGED <<drug_list, data, queue, results, indexVars>>

Next == AggregateEnter \/ LoopSuccess \/ LoopFailure \/ AggregateReturn \/ SaveResults

Spec == Init /\ [][Next]_vars

(***************************************************************************)
(* Claims about the batch pipeline (checked under Spec)                    *)
(***************************************************************************)
Returned == pc \in {"returned", "saved"}

IsFailure(r) == "error" \in DOMAIN r

\* C1: calculate_and_return_all_drugs never raises and returns exactly one
\* record per name of the list: as many records as names, every name in the
\* 'drug' field of exactly one record, whatever the number of failures; while
\* the loop runs, the records written and the names still to visit add up to
\* the list.
C1_OneRecordPerName ==
    /\ pc # "ZeroDivisionError"
    /\ pc = "loop" => Len(results) + Len(queue) = Len(drug_list)
    /\ Returned =>
          /\ Len(results) = Len(drug_list)
          /\ \A i \in DOMAIN drug_list :
                Cardinality({j \in DOMAIN results :
                                results[j].drug = drug_list[i]}) = 1

\* C1 witness: a returned batch of two names, one of them a failure
C1_Witness ==
    /\ pc = "returned"
    /\ Len(drug_list) = 2
    /\ \E j \in DOMAIN results : IsFailure(results[j])
    /\ \E j \in DOMAIN results : HasIndices(results[j])

\* the lists with the same names as dl, in every order
Reorderings(dl) ==
    {p \in NameLists : Len(p) = Len(dl) /\ Range(p) = Range(dl)}

\* C2: the returned records are in strictly ascending lexicographic order of
\* name, and every permutation of the name list gives, with the same source
\* mapping, the same record sequence.
C2_SortedByName ==
    Returned =>
        /\ \A i, j \in DOMAIN results :
              i < j => StrLt(results[i].drug, results[j].drug)
        /\ \A p \in Reorderings(drug_list) :
              calculate_and_return_all_drugs(p, data) = results

\* C2 witness: a list given in descending order, with a success and a failure
C2_Witness ==
    /\ pc = "returned"
    /\ Len(drug_list) = 2
    /\ StrLt(drug_list[2], drug_list[1])
    /\ results[1].drug = drug_list[2]
    /\ IsFailure(results[1]) # IsFailure(results[2])

\* C3: every record is one of two variants.  A name whose source value is an
\* edge list (the empty one included) has 'drug' and 'indices' only, the
\* indices being the rounded result of calculate_indices on the graph built
\* from the list (all zero for the empty list); a name whose value is the
\* error marker, or that is missing, has 'drug' and 'error' only, the error
\* being the marker itself, None for a missing name.
C3_TwoVariants ==
    \A j \in DOMAIN results :
        LET r    == results[j]
            name == r.drug
        IN  /\ name \in DOMAIN data /\ data[name].kind = "list" =>
                  /\ DOMAIN r = {"drug", "indices"}
                  /\ r.indices =
                        Rounded(calculate_indices(BuildGraph(data[name].edges)))
                  /\ data[name].edges = <<>> =>
                        /\ \A k \in RatKeys : r.indices[k] = <<0, 1>>
                        /\ r.indices.SC = EmptyBag
            /\ name \in DOMAIN data /\ data[name].kind = "dict" =>
                  /\ DOMAIN r = {"drug", "error"}
                  /\ r.error = data[name]
                  /\ r.error.error = "edge relations not found"
            /\ name \notin DOMAIN data =>
                  /\ DOMAIN r = {"drug", "error"}
                  /\ r.error.kind = "None"

\* C3 witness: a report with a missing name and an empty edge list
C3_Witness ==
    /\ pc = "returned"
    /\ \E j \in DOMAIN results : results[j].drug \notin DOMAIN data
    /\ \E j \in DOMAIN results :
          /\ results[j].drug \in DOMAIN data
          /\ data[results[j].drug] = ListValue(<<>>)

\* C9: the table has exactly one row per success record and none for a
\* failure record: its row labels are the names of the records that carry
\* 'indices', in the order of the report, each row holding that record's ten
\* index values.
C9_TableRows ==
    pc = "saved" =>
        /\ Len(df.index) = Cardinality({j \in DOMAIN results : HasIndices(results[j])})
        /\ Len(df.rows) = Len(df.index)
        /\ \A j \in DOMAIN results :
              LET hits == {i \in DOMAIN df.index : df.index[i] = results[j].drug}
              IN  IF IsFailure(results[j])
                  THEN hits = {}
                  ELSE /\ Cardinality(hits) = 1
                       /\ \A i \in hits :
                             /\ df.rows[i] = results[j].indices
                             /\ DOMAIN df.rows[i] = IndexKeys
        /\ \A i, k \in DOMAIN df.index :
              i < k =>
                 \E a, b \in DOMAIN results :
                    /\ a < b
                    /\ results[a].drug = df.index[i]
                    /\ results[b].drug = df.index[k]

\* C9 witness: a saved table of one row from a report of two records, the
\* first one a failure
C9_Witness ==
    /\ pc = "saved"
    /\ Len(results) = 2
    /\ IsFailure(results[1])
    /\ Len(df.index) = 1
    /\ df.index[1] = results[2].drug

(***************************************************************************)
(* Claims about the graph and calculate_indices (checked under SpecIndices)*)
(*                                                                         *)
(* The reference values are computed from the edge list alone: the set of  *)
(* its unordered pairs, and the degrees that set gives.                    *)
(***************************************************************************)
\* add_edges_from has just returned; G is not written afterwards
Built == pc = "calc"

\* calculate_indices has made its iterator and has not yet taken an edge
LoopEntered == pc = "loop" /\ cur = <<>>

\* the unordered pairs of a list: {u, v}, or {x} for a self-loop
UEdges(es) == {{es[i][1], es[i][2]} : i \in DOMAIN es}

\* the number of ends the edges of U have at n, a self-loop having two
SetDeg(U, n) ==
    Cardinality({u \in U : n \in u}) + (IF {n} \in U THEN 1 ELSE 0)

\* the number of times n is written in the list
Occurrences(es, n) ==
    Cardinality({i \in DOMAIN es : es[i][1] = n})
    + Cardinality({i \in DOMAIN es : es[i][2] = n})

Lo(u) == CHOOSE a \in u : \A b \in u : a <= b

Hi(u) == CHOOSE a \in u : \A b \in u : b <= a

SumDeg(U, u) == SetDeg(U, Lo(u)) + SetDeg(U, Hi(u))

IntTerm(k, dx, dy) ==
    CASE k = "M1" -> dx + dy
      [] k = "M2" -> dx * dy
      [] k = "FG" -> dx * dx + dy * dy
      [] k = "HM" -> (dx + dy) * (dx + dy)

RECURSIVE IntSum(_, _, _)
IntSum(k, S, U) ==
    IF S = {} THEN 0
    ELSE LET u == CHOOSE u \in S : TRUE
         IN  IntTerm(k, SetDeg(U, Lo(u)), SetDeg(U, Hi(u))) + IntSum(k, S \ {u}, U)

RatTerm(k, dx, dy) ==
    CASE k = "mM2" -> Rat(1, dx * dy)
      [] k = "ISI" -> Rat(dx * dy, dx + dy)
      [] k = "H"   -> Rat(2, dx + dy)
      [] k = "A"   -> RatCube(Rat(dx * dy, dx + dy - 2))
      [] k = "SDD" -> RatAdd(Rat(dx, dy), Rat(dy, dx))

RECURSIVE RatSum(_, _, _)
RatSum(k, S, U) ==
    IF S = {} THEN Zero
    ELSE LET u == CHOOSE u \in S : TRUE
         IN  RatAdd(RatTerm(k, SetDeg(U, Lo(u)), SetDeg(U, Hi(u))),
                    RatSum(k, S \ {u}, U))

\* no pair of the list is repeated, in either orientation
NoRepeat(es) == Cardinality(UEdges(es)) = Len(es)

\* C4 as stated: the degree of every node is the number of times the list
\* names it, repeated pairs included (no deduplication).
C4_DegreeCountsOccurrences ==
    Built => \A n \in NodeSet(G) : Degree(G, n) = Occurrences(edges, n)

\* C4 amended: the degree of every node is the number of ends that the
\* distinct unordered edges of the list have at it (a self-loop has two): a
\* pair repeated in either orientation is one edge, so the graph has as many
\* edges as the list has distinct unordered pairs; for a list that repeats
\* no pair the degree is the number of times the list names the node.
C4_DegreeCountsDistinctEdges ==
    Built =>
        LET U == UEdges(edges)
        IN  /\ \A i \in DOMAIN edges : {edges[i][1], edges[i][2]} \subseteq NodeSet(G)
            /\ \A n \in NodeSet(G) : Degree(G, n) = SetDeg(U, n)
            /\ Len(Edges(G)) = Cardinality(U)
            /\ NoRepeat(edges) =>
                  \A n \in NodeSet(G) : Degree(G, n) = Occurrences(edges, n)

\* C4 witness: a built graph from a list that repeats a bond in the other
\* orientation; the endpoints have degree 1
C4_Witness ==
    /\ Built
    /\ Len(edges) = 2
    /\ edges[1][1] # edges[1][2]
    /\ edges[2] = <<edges[1][2], edges[1][1]>>
    /\ Degree(G, edges[1][1]) = 1

C6_SumsOverUndirectedEdges ==
    LET U  == UEdges(edges)
        es == todo
    IN  /\ LoopEntered =>
              /\ {{es[i][1], es[i][2]} : i \in DOMAIN es} = U
              /\ \A i, j \in DOMAIN es :
                    i # j => {es[i][1], es[i][2]} # {es[j][1], es[j][2]}
        /\ pc = "done" =>
              /\ \A k \in {"M1", "M2", "FG", "HM"} :
                    indices[k] = <<IntSum(k, U, U), 1>>
              /\ U = {{0, 1}, {1, 2}, {0, 2}} =>
                    /\ indices.M1 = <<12, 1>>
                    /\ indices.M2 = <<12, 1>>
                    /\ indices.HM = <<48, 1>>
                    /\ indices.A = <<24, 1>>

\* C6 witness: the triangle, listed from node 2 and with a pair reversed
C6_Witness ==
    /\ pc = "done"
    /\ edges = << <<2, 1>>, <<0, 2>>, <<1, 0>> >>
    /\ indices.M1 = <<12, 1>>

\* A and the other indices as sums over the unordered edges U of the list:
\* A over the edges with dx+dy # 2 only, the others over every edge
C7_Sums(U) ==
    /\ indices.A = RatSum("A", {u \in U : SumDeg(U, u) # 2}, U)
    /\ \A k \in {"mM2", "ISI", "H", "SDD"} : indices[k] = RatSum(k, U, U)
    /\ \A k \in {"M1", "M2", "FG", "HM"} : indices[k] = <<IntSum(k, U, U), 1>>
    /\ BagCardinality(indices.SC) = Cardinality(U)
    /\ \A s \in BagToSet(indices.SC) :
          CopiesIn(s, indices.SC) = Cardinality({u \in U : SumDeg(U, u) = s})

\* U is one bond between two distinct nodes
SingleBond(U) == Cardinality(U) = 1 /\ (\A u \in U : Cardinality(u) = 2)

\* C7 as stated: no division by zero occurs; A is the sum of
\* ((dx*dy)/(dx+dy-2))^3 over exactly the edges with dx+dy # 2, while those
\* edges still count in the other indices; one bond between two nodes of
\* degree 1 gives M1 = 2, M2 = 1, mM2 = 1, FG = 2, ISI = 1, H = 1, HM = 4,
\* A = 0, SDD = 2.
C7_SingleBondISIOne ==
    LET U == UEdges(edges)
    IN  /\ pc # "ZeroDivisionError"
        /\ pc = "done" =>
              /\ C7_Sums(U)
              /\ SingleBond(U) =>
                    /\ indices.M1 = <<2, 1>>
                    /\ indices.M2 = <<1, 1>>
                    /\ indices.mM2 = <<1, 1>>
                    /\ indices.FG = <<2, 1>>
                    /\ indices.ISI = <<1, 1>>
                    /\ indices.H = <<1, 1>>
                    /\ indices.HM = <<4, 1>>
                    /\ indices.A = <<0, 1>>
                    /\ indices.SDD = <<2, 1>>

\* C7 amended: as stated, but the single bond gives ISI = 1/2, its term
\* (dx*dy)/(dx+dy) being (1*1)/2; SC is then one sqrt(1/2).
C7_ASkipsSumTwo ==
    LET U == UEdges(edges)
    IN  /\ pc # "ZeroDivisionError"
        /\ pc = "done" =>
              /\ C7_Sums(U)
              /\ SingleBond(U) =>
                    /\ indices.M1 = <<2, 1>>
                    /\ indices.M2 = <<1, 1>>
                    /\ indices.mM2 = <<1, 1>>
                    /\ indices.FG = <<2, 1>>
                    /\ indices.ISI = <<1, 2>>
                    /\ indices.H = <<1, 1>>
                    /\ indices.HM = <<4, 1>>
                    /\ indices.A = <<0, 1>>
                    /\ indices.SDD = <<2, 1>>
                    /\ indices.SC = SetToBag({2})

\* C7 witness: an isolated bond beside a path of two bonds: A got the two
\* terms of the path and none for the bond
C7_Witness ==
    /\ pc = "done"
    /\ Cardinality(UEdges(edges)) = 2
    /\ \E u \in UEdges(edges) : SumDeg(UEdges(edges), u) = 2
    /\ \E u \in UEdges(edges) : SumDeg(UEdges(edges), u) # 2
    /\ indices.A # <<0, 1>>

\* C8: a self-loop (x,x) gives x two degree units (beside one per other
\* neighbour) and is visited once, with dx = dy = deg(x); the graph of a
\* single self-loop has deg(x) = 2 and gives M1 = 4, M2 = 4, FG = 8,
\* HM = 16, A = 8, and nothing raises.
C8_SelfLoopCountsTwice ==
    LET U == UEdges(edges)
    IN  /\ pc # "ZeroDivisionError"
        /\ Built =>
              \A x \in Nodes :
                 {x} \in U =>
                    /\ Degree(G, x) = 2 + Cardinality({u \in U : x \in u /\ u # {x}})
                    /\ LET es == Edges(G)
                       IN  Cardinality({i \in DOMAIN es : es[i] = <<x, x>>}) = 1
        /\ cur # <<>> /\ cur[1] = cur[2] =>
              /\ cur[3] = Degree(G, cur[1])
              /\ cur[4] = cur[3]
              /\ cur[3] >= 2
        /\ pc = "done" /\ Cardinality(U) = 1 /\ (\A u \in U : Cardinality(u) = 1) =>
              /\ \A n \in NodeSet(G) : Degree(G, n) = 2
              /\ indices.M1 = <<4, 1>>
              /\ indices.M2 = <<4, 1>>
              /\ indices.FG = <<8, 1>>
              /\ indices.HM = <<16, 1>>
              /\ indices.A = <<8, 1>>

\* C8 witness: the graph of the single self-loop (1,1), after the return
C8_Witness ==
    /\ pc = "done"
    /\ edges = << <<1, 1>> >>
    /\ cur = <<1, 1, 2, 2>>

\* C10: in every iteration both endpoints have degree >= 1, so dx*dy >= 1
\* and dx+dy >= 2 and no fallback branch of mM2, ISI, H, SC, SDD is taken;
\* dx+dy = 2 only for an edge between two distinct nodes of degree 1, each
\* the other's only neighbour.
C10_DegreesPositive ==
    cur # <<>> =>
        LET x == cur[1]
            y == cur[2]
            dx == cur[3]
            dy == cur[4]
        IN  /\ dx >= 1 /\ dy >= 1
            /\ dx * dy >= 1
            /\ dx + dy >= 2
            /\ ~FallbackTaken(dx, dy)
            /\ dx + dy = 2 =>
                  /\ x # y
                  /\ Adj(G, x) = <<y>>
                  /\ Adj(G, y) = <<x>>

\* C10 witness: the iteration over an isolated bond in a graph that also has
\* a self-loop
C10_Witness ==
    /\ cur # <<>>
    /\ cur[3] + cur[4] = 2
    /\ \E n \in NodeSet(G) : n \in Range(Adj(G, n))

====
